---- MODULE Spec2Model ----
(***************************************************************************)
(* Model of the Wagtail stress tester: the Streamlit application           *)
(* (streamlit_app.py) and the command-line tester (stress_test_simple.py). *)
(*                                                                         *)
(* One behaviour is one program execution: either one invocation of the    *)
(* command-line tester, or one press of the "Start Stress Test" button of  *)
(* the Streamlit application followed by the rerun that renders the        *)
(* Results and History tabs.                                               *)
(*                                                                         *)
(* A result record keeps the fields that decide control flow and the       *)
(* aggregates: request_id, status_code, success, error.  The measured      *)
(* response_time, the response_text preview and content_length are never   *)
(* read by any condition of the program and are left out.  The optional    *)
(* bearer token only adds a request header and is left out as well.        *)
(*                                                                         *)
(* The script defines run_stress_test and run_page_load_test after the     *)
(* button handler that calls them.  Whether the names are bound when the   *)
(* handler runs depends on the namespace the script runner executes the    *)
(* script in; both cases are kept (helpersDefined).                        *)
(*                                                                         *)
(* The worker pool, futures and as_completed follow concurrent.futures:    *)
(* at most max_workers threads, a FIFO work queue, one work item per       *)
(* thread at a time; as_completed yields the futures already finished      *)
(* when it starts in no particular order, then the others as they finish.  *)
(***************************************************************************)
EXTENDS Integers, Sequences, FiniteSets, TLC

\* ------------------------------------------------------------------ bounds
MaxRequests == 2
MaxWorkers == 2
DelayMs == 50
LongRequests == 11

\* ------------------------------------------------------- values and inputs
Methods == {"GET", "POST", "PUT", "DELETE"}
ApiMode == "API Endpoint"
PageMode == "Page Load (Embedded)"
TestModes == {ApiMode, PageMode}

\* Python's None and str values.  A str is kept as the sequence of the
\* pieces it was built from (f-string parts), so that emptiness is decided
\* by its content.
NoneVal == [none |-> TRUE, text |-> <<>>]
Str(parts) == [none |-> FALSE, text |-> parts]
Truthy(v) == ~v.none /\ \E k \in 1..Len(v.text) : v.text[k] # ""

\* What one requests.<method>(...) call does, as chosen by the network and
\* the target: an HTTP response with a status code, or a raised exception.
Resp(code) == [kind |-> "response", status |-> code, msg |-> ""]
Raise(cls, m) == [kind |-> cls, status |-> 0, msg |-> m]
StatusCodes == {200, 399, 400, 500}
\* requests raises its own exceptions with a message; any other exception may
\* carry an empty one.
Failures ==
    { Raise("Timeout", "Read timed out."),
      Raise("ConnectionError", "Connection refused"),
      Raise("RequestException", "Exceeded 30 redirects."),
      Raise("Exception", "boom"),
      Raise("Exception", "") }
MissingSchema == Raise("RequestException", "Invalid URL: No scheme supplied.")
AllOutcomes == {Resp(c) : c \in StatusCodes} \cup Failures \cup {MissingSchema}
\* The outcomes a whole run is explored with.
RunOutcomes == {Resp(200), Resp(500), Raise("ConnectionError", "Connection refused")}

\* ---------------------------------------------------------------- strings
\* Command-line arguments are sequences of characters.
Digit == {"0", "1", "2", "3", "4", "5", "6", "7", "8", "9"}
DigitVal(c) ==
    CASE c = "0" -> 0 [] c = "1" -> 1 [] c = "2" -> 2 [] c = "3" -> 3
      [] c = "4" -> 4 [] c = "5" -> 5 [] c = "6" -> 6 [] c = "7" -> 7
      [] c = "8" -> 8 [] c = "9" -> 9
DigitChar(d) ==
    CASE d = 0 -> "0" [] d = 1 -> "1" [] d = 2 -> "2" [] d = 3 -> "3"
      [] d = 4 -> "4" [] d = 5 -> "5" [] d = 6 -> "6" [] d = 7 -> "7"
      [] d = 8 -> "8" [] d = 9 -> "9"
IsDigits(s) == Len(s) > 0 /\ \A k \in 1..Len(s) : s[k] \in Digit
RECURSIVE DigitsVal(_)
DigitsVal(s) ==
    IF Len(s) = 0 THEN 0
    ELSE 10 * DigitsVal(SubSeq(s, 1, Len(s) - 1)) + DigitVal(s[Len(s)])
RECURSIVE IntStr(_)
IntStr(n) == IF n < 10 THEN <<DigitChar(n)>> ELSE IntStr(n \div 10) \o <<DigitChar(n % 10)>>

\* int(text): ok is FALSE where Python raises ValueError.
ParseInt(s) ==
    IF IsDigits(s) THEN [ok |-> TRUE, val |-> DigitsVal(s)]
    ELSE IF Len(s) > 1 /\ s[1] = "-" /\ IsDigits(Tail(s))
         THEN [ok |-> TRUE, val |-> 0 - DigitsVal(Tail(s))]
    ELSE IF Len(s) > 1 /\ s[1] = "+" /\ IsDigits(Tail(s))
         THEN [ok |-> TRUE, val |-> DigitsVal(Tail(s))]
    ELSE [ok |-> FALSE, val |-> 0]

\* json.loads(text) on the payload texts of the model: ok is FALSE where
\* Python raises json.JSONDecodeError.
DefaultPayloadText == "{\"title\": \"Test Dashboard\", \"type\": \"dashboard.DashboardPage\"}"
BadPayloadText == "{title: Test Dashboard"
NoPayloadText == ""
PayloadTexts == {DefaultPayloadText, BadPayloadText}
JsonLoads(text) ==
    IF text = DefaultPayloadText
    THEN [ok |-> TRUE, value |-> "dict:title,type"]
    ELSE [ok |-> FALSE, value |-> "None"]

\* -------------------------------------------------------------- executors
\* success = status_code < 400, evaluated only after a response arrived.
\*   variant: the comparison one off at the boundary.
IsSuccessStatusUpTo400(status_code) == status_code <= 400
IsSuccessStatus(status_code) == status_code < 400

\* A future's outcome: the value its function returned, or the exception that
\* left the function.
NoResult == [request_id |-> 0, status_code |-> 0, success |-> FALSE, error |-> NoneVal]
Returned(value) == [exception |-> "None", result |-> value]
Raised(cls) == [exception |-> cls, result |-> NoResult]

\* The classes derived from Exception: all that "except Exception" catches.
ExceptionClasses == {"Timeout", "ConnectionError", "RequestException", "ValueError", "Exception"}

\* The except clauses of make_request: is the raised exception caught.
\*   variant: without the final "except Exception" clause.
MakeRequestCatchesRequestsOnly(o) ==
    o.kind \in {"Timeout", "ConnectionError", "RequestException"}
MakeRequestCatches(o) ==
    \/ o.kind = "Timeout"
    \/ o.kind = "ConnectionError"
    \/ o.kind = "RequestException"
    \/ o.kind \in ExceptionClasses

\* The except clauses of load_page (streamlit_app.py).
LoadPageCatches(o) ==
    \/ o.kind = "Timeout"
    \/ o.kind = "ConnectionError"
    \/ o.kind = "RequestException"
    \/ o.kind \in ExceptionClasses

\* The except clauses of load_page (stress_test_simple.py).
\*   variant: only the timeout is caught.
CliLoadPageCatchesTimeout(o) == o.kind = "Timeout"
CliLoadPageCatches(o) ==
    \/ o.kind = "Timeout"
    \/ o.kind = "ConnectionError"
    \/ o.kind = "RequestException"
    \/ o.kind \in ExceptionClasses

\* The except clauses of make_request: the error label of a raised exception.
RequestErrorLabel(o) ==
    IF o.kind = "Timeout" THEN Str(<<"Request timeout">>)
    ELSE IF o.kind = "ConnectionError" THEN Str(<<"Connection error">>)
    ELSE IF o.kind = "RequestException" THEN Str(<<o.msg>>)
    ELSE Str(<<"Unexpected error: ", o.msg>>)

\* The except clauses of load_page (streamlit_app.py).
PageErrorLabel(o) ==
    IF o.kind = "Timeout" THEN Str(<<"Page load timeout (60s)">>)
    ELSE IF o.kind = "ConnectionError" THEN Str(<<"Connection error">>)
    ELSE IF o.kind = "RequestException" THEN Str(<<o.msg>>)
    ELSE Str(<<"Unexpected error: ", o.msg>>)

\* The except clauses of load_page (stress_test_simple.py).
CliErrorLabel(o) ==
    IF o.kind = "Timeout" THEN Str(<<"Page load timeout (60s)">>)
    ELSE IF o.kind = "ConnectionError" THEN Str(<<"Connection error">>)
    ELSE IF o.kind = "RequestException" THEN Str(<<o.msg>>)
    ELSE Str(<<"Unexpected error: ", o.msg>>)

\* make_request (streamlit_app.py): one call of requests.<method>, whose
\* outcome is net; an unsupported method raises ValueError before any call.
MakeRequest(method, request_id, net) ==
    LET o == IF method \in Methods THEN net
             ELSE Raise("ValueError", "Unsupported method")
        responded == o.kind = "response"
    IN  IF responded \/ MakeRequestCatches(o)
        THEN Returned(
               [ request_id  |-> request_id,
                 status_code |-> IF responded THEN o.status ELSE 0,
                 success     |-> IF responded THEN IsSuccessStatus(o.status) ELSE FALSE,
                 error       |-> IF responded THEN NoneVal ELSE RequestErrorLabel(o) ])
        ELSE Raised(o.kind)

\* load_page (streamlit_app.py): one requests.get with allow_redirects.
LoadPage(request_id, net) ==
    LET responded == net.kind = "response"
    IN  IF responded \/ LoadPageCatches(net)
        THEN Returned(
               [ request_id  |-> request_id,
                 status_code |-> IF responded THEN net.status ELSE 0,
                 success     |-> IF responded THEN IsSuccessStatus(net.status) ELSE FALSE,
                 error       |-> IF responded THEN NoneVal ELSE PageErrorLabel(net) ])
        ELSE Raised(net.kind)

\* load_page (stress_test_simple.py).
CliLoadPage(request_id, net) ==
    LET responded == net.kind = "response"
    IN  IF responded \/ CliLoadPageCatches(net)
        THEN Returned(
               [ request_id  |-> request_id,
                 status_code |-> IF responded THEN net.status ELSE 0,
                 success     |-> IF responded THEN IsSuccessStatus(net.status) ELSE FALSE,
                 error       |-> IF responded THEN NoneVal ELSE CliErrorLabel(net) ])
        ELSE Raised(net.kind)

\* ------------------------------------------------------------- aggregation
\* sum(1 for r in results if ...): the number of positions that qualify.
Count(positions) == Cardinality(positions)

\* successful / total * 100 as the exact fraction num/den; 0 when total = 0.
SuccessRate(successful, total) ==
    IF total > 0 THEN [num |-> successful * 100, den |-> total]
    ELSE [num |-> 0, den |-> 1]

\* d = {}; for key in keys: d[key] = d.get(key, 0) + 1
RECURSIVE Tally(_, _)
Tally(keys, d) ==
    IF keys = <<>> THEN d
    ELSE Tally(Tail(keys),
               IF Head(keys) \in DOMAIN d
               THEN [d EXCEPT ![Head(keys)] = @ + 1]
               ELSE d @@ (Head(keys) :> 1))

\* The status code distribution: one key per r['status_code'].
StatusCodeCounts(results) ==
    Tally([k \in 1..Len(results) |-> results[k].status_code], <<>>)

\* errors = [r for r in results if r['error']]
\*   variant: every failed result taken as an error.
ErrorsOfFailed(results) == SelectSeq(results, LAMBDA r : ~r.success)
Errors(results) == SelectSeq(results, LAMBDA r : Truthy(r.error))

\* error_types of print_results: one key per r['error'] of the errors.
ErrorTypeCounts(results) ==
    Tally([k \in 1..Len(Errors(results)) |-> Errors(results)[k].error], <<>>)

\* for error in errors[:10]: the expanders of Tab 2.
ErrorsShown == 10
FirstErrors(results) ==
    [ k \in 1..(IF Len(Errors(results)) > ErrorsShown THEN ErrorsShown
                ELSE Len(Errors(results))) |->
        <<Errors(results)[k].request_id, Errors(results)[k].error>> ]

\* print_results (stress_test_simple.py).
PrintResults(results) ==
    LET total == Len(results)
        successful == Count({k \in 1..Len(results) : results[k].success})
    IN  [ view |-> "print_results", total |-> total, successful |-> successful,
          failed |-> total - successful,
          success_rate |-> SuccessRate(successful, total),
          status_codes |-> StatusCodeCounts(results),
          error_types |-> ErrorTypeCounts(results) ]

\* Tab 2 "Results" (streamlit_app.py): rendered only for a non-empty list.
ResultsTab(results) ==
    LET total_requests == Len(results)
        successful == Count({k \in 1..Len(results) : results[k].status_code < 400})
    IN  [ view |-> "results_tab", total |-> total_requests, successful |-> successful,
          failed |-> total_requests - successful,
          success_rate |-> SuccessRate(successful, total_requests),
          status_codes |-> StatusCodeCounts(results),
          errors |-> FirstErrors(results) ]

\* Neither print_results nor the tabs assign to the list they are given or
\* call a method that changes it: the list as it is after they ran.
\*   variant: the list sorted in place, here turned around.
AfterAggregationReversed(results) ==
    [ k \in 1..Len(results) |-> results[Len(results) + 1 - k] ]
AfterAggregation(results) == results

\* Tab 3 "History" (streamlit_app.py): one entry, rendered only for a
\* non-empty result list; it shows total and success rate.
HistoryEntry(results) ==
    LET total == Len(results)
        successful == Count({k \in 1..Len(results) : results[k].status_code < 400})
    IN  [ view |-> "history_tab", total |-> total, successful |-> successful,
          failed |-> total - successful,
          success_rate |-> [num |-> successful * 100, den |-> total] ]

NoReport == [ view |-> "none", total |-> 0, successful |-> 0, failed |-> 0,
              success_rate |-> [num |-> 0, den |-> 1] ]

\* ------------------------------------------------------------------ state
VARIABLES
    entry,           \* "cli": stress_test_simple.py, "app": streamlit_app.py
    argv,            \* sys.argv[1:] of the command-line tester
    widgets,         \* the sidebar widget values of the application
    helpersDefined,  \* are the helper functions, defined at the end of the
                     \* script, bound when the button handler calls them
    signal,          \* the interrupt delivered to the main thread, if any
    pc,              \* position of the main thread
    message,         \* the error texts shown to the user
    request_payload, \* the payload parsed from the sidebar text area
    call,            \* the arguments of the running run_* function
    i,               \* the submission loop's index: requests submitted so far
    slept,           \* the sleep of the current loop iteration is done
    sleeps,          \* number of time.sleep calls done
    submitLog,       \* per submission: <<request_id, sleeps done before it>>
    threads,         \* worker threads the pool has created
    queue,           \* the pool's work queue (request ids), FIFO
    taken,           \* work items dequeued by a worker, call not yet begun
    running,         \* request ids whose executor call has begun, not ended
    network,         \* what the network and the target may do to a call
    calls,           \* per request id: the outcomes of its network calls
    done,            \* finished futures: request id -> returned value or exception
    doneOrder,       \* request ids in the order their calls finished
    acStarted,       \* as_completed has taken its snapshot
    acFinished,      \* as_completed: futures already finished at the snapshot
    acWaiter,        \* as_completed: futures finished since, in that order
    acSnapshot,      \* as_completed: all futures found finished at its start
    results,         \* the run's result list
    completed,       \* the run's completion counter
    progress,        \* notifications to the progress sink: <<completed, total>>
    test_results,    \* st.session_state.test_results
    test_history,    \* st.session_state.test_history
    report,          \* the summary shown: print_results or the Results tab
    history_report,  \* the summaries shown by the History tab
    returned         \* what the run function returned to its caller

cfgVars == <<entry, argv, widgets, helpersDefined, signal>>
loopVars == <<i, slept, sleeps, submitLog>>
poolVars == <<network, threads, queue, taken, running, calls, done, doneOrder>>
collVars == <<acStarted, acFinished, acWaiter, acSnapshot, results, completed, progress>>
outVars == <<test_results, test_history, report, history_report, returned>>
vars == <<cfgVars, pc, message, request_payload, call, loopVars, poolVars, collVars, outVars>>

NoCall == [ fn |-> "none", base_url |-> "", endpoint |-> "", page_url |-> "",
            method |-> "None", payload |-> "None",
            num_requests |-> 0, concurrent_workers |-> 0, delay_ms |-> 0 ]
\* No interrupt so far; nothing returned so far.
NoSignal == [ raised |-> FALSE, submitted |-> 0, collected |-> <<>> ]
NotReturned == [ given |-> FALSE, value |-> <<>> ]
NoWidgets == [ test_mode |-> "none", base_url |-> "", api_endpoint |-> "", page_url |-> "",
               num_requests |-> 0, concurrent_workers |-> 0, request_method |-> "None",
               payload_text |-> NoPayloadText, delay_ms |-> 0 ]

\* The sidebar: sliders keep num_requests, concurrent_workers and delay_ms in
\* range; the method select box and the payload text area exist in API mode
\* only, the text area only for POST and PUT.
BaseUrls == {"", "http://localhost:8000"}
ApiEndpoints == {"", "/api/v2/pages/"}
PageUrls == {"", "http://localhost:8000/dashboard/test-dashboard/"}
\* base_url in page mode: scheme and host of page_url when it has both.
PageBase(page_url) == IF page_url = "" THEN "" ELSE "http://localhost:8000"
Delays == {0, DelayMs}
WidgetStates ==
    { [ test_mode |-> ApiMode, base_url |-> b, api_endpoint |-> e, page_url |-> "",
        num_requests |-> n, concurrent_workers |-> w, request_method |-> m,
        payload_text |-> t, delay_ms |-> d ] :
        b \in BaseUrls, e \in ApiEndpoints, n \in 1..MaxRequests, w \in 1..MaxWorkers,
        m \in {"POST", "PUT"}, t \in PayloadTexts, d \in Delays }
    \cup
    { [ test_mode |-> ApiMode, base_url |-> b, api_endpoint |-> e, page_url |-> "",
        num_requests |-> n, concurrent_workers |-> w, request_method |-> m,
        payload_text |-> NoPayloadText, delay_ms |-> d ] :
        b \in BaseUrls, e \in ApiEndpoints, n \in 1..MaxRequests, w \in 1..MaxWorkers,
        m \in {"GET", "DELETE"}, d \in Delays }
    \cup
    { [ test_mode |-> PageMode, base_url |-> PageBase(p), api_endpoint |-> "", page_url |-> p,
        num_requests |-> n, concurrent_workers |-> w, request_method |-> "None",
        payload_text |-> NoPayloadText, delay_ms |-> d ] :
        p \in PageUrls, n \in 1..MaxRequests, w \in 1..MaxWorkers, d \in Delays }

\* The command line: a URL and two numbers as typed, or too few arguments.
CountArgs(max) == {IntStr(n) : n \in 0..max} \cup {<<"-", "1">>, <<"x">>}
ArgVectors ==
    { <<u, n, w>> : u \in PageUrls, n \in CountArgs(MaxRequests), w \in CountArgs(MaxWorkers) }
    \cup { <<u>> : u \in PageUrls }

InitRunOn(net) ==
    /\ pc = "start"
    /\ message = {} /\ request_payload = "None" /\ call = NoCall
    /\ i = 0 /\ slept = FALSE /\ sleeps = 0 /\ submitLog = <<>>
    /\ network = net
    /\ threads = 0 /\ queue = <<>> /\ taken = {} /\ running = {}
    /\ calls = <<>> /\ done = <<>> /\ doneOrder = <<>>
    /\ acStarted = FALSE /\ acFinished = {} /\ acWaiter = <<>> /\ acSnapshot = {}
    /\ results = <<>> /\ completed = 0 /\ progress = <<>>
    /\ test_results = <<>> /\ test_history = <<>>
    /\ report = NoReport /\ history_report = <<>>
    /\ signal = NoSignal /\ returned = NotReturned

InitRun == InitRunOn(RunOutcomes)

Init ==
    /\ \/ entry = "cli" /\ argv \in ArgVectors /\ widgets = NoWidgets
          /\ helpersDefined = TRUE
       \/ entry = "app" /\ argv = <<>> /\ widgets \in WidgetStates
          /\ helpersDefined \in BOOLEAN
    /\ InitRun

\* ------------------------------------------------- the application script
\* Sidebar, "Request payload for POST/PUT": json.loads of the text area; on
\* JSONDecodeError the sidebar shows an error and the payload stays None.
HasPayloadArea(w) == w.test_mode = ApiMode /\ w.request_method \in {"POST", "PUT"}
RequestPayload(w) ==
    IF HasPayloadArea(w) /\ JsonLoads(w.payload_text).ok
    THEN JsonLoads(w.payload_text).value ELSE "None"
SidebarErrors(w) ==
    IF HasPayloadArea(w) /\ ~JsonLoads(w.payload_text).ok
    THEN {"Invalid JSON payload"} ELSE {}

\* Tab 1, the "Start Stress Test" button: the two configuration checks, then
\* the call of run_stress_test or run_page_load_test.  Both names are bound
\* by def statements that come after this handler in the script.
StartButton ==
    /\ pc = "start" /\ entry = "app"
    /\ request_payload' = RequestPayload(widgets)
    /\ IF widgets.test_mode = ApiMode /\ (widgets.base_url = "" \/ widgets.api_endpoint = "")
       THEN /\ pc' = "rejected"
            /\ message' = SidebarErrors(widgets)
                            \cup {"Please configure the base URL and API endpoint"}
            /\ call' = call
       ELSE IF widgets.test_mode = "Page Load" /\ widgets.page_url = ""
       THEN /\ pc' = "rejected"
            /\ message' = SidebarErrors(widgets) \cup {"Please configure the page URL"}
            /\ call' = call
       ELSE IF ~helpersDefined
       THEN /\ pc' = "crashed"
            /\ message' = SidebarErrors(widgets) \cup {"NameError"}
            /\ call' = call
       ELSE IF widgets.test_mode = ApiMode
       THEN /\ pc' = "submit"
            /\ message' = SidebarErrors(widgets)
            /\ call' = [ fn |-> "run_stress_test", base_url |-> widgets.base_url,
                         endpoint |-> widgets.api_endpoint, page_url |-> "",
                         method |-> widgets.request_method,
                         payload |-> RequestPayload(widgets),
                         num_requests |-> widgets.num_requests,
                         concurrent_workers |-> widgets.concurrent_workers,
                         delay_ms |-> widgets.delay_ms ]
       ELSE /\ pc' = "submit"
            /\ message' = SidebarErrors(widgets)
            /\ call' = [ fn |-> "run_page_load_test", base_url |-> "", endpoint |-> "",
                         page_url |-> widgets.page_url,
                         method |-> "None", payload |-> "None",
                         num_requests |-> widgets.num_requests,
                         concurrent_workers |-> widgets.concurrent_workers,
                         delay_ms |-> widgets.delay_ms ]
    /\ UNCHANGED <<cfgVars, loopVars, poolVars, collVars, outVars>>

\* ------------------------------------------------- the command-line tester
\* main: the argument count, int() of both numbers, both lower bounds, then
\* run_stress_test(page_url, num_requests, concurrent_workers).
Main ==
    /\ pc = "start" /\ entry = "cli"
    /\ IF Len(argv) # 3
       THEN pc' = "exit1" /\ message' = {"Usage"} /\ call' = call
       ELSE IF ~ParseInt(argv[2]).ok \/ ~ParseInt(argv[3]).ok
       THEN /\ pc' = "exit1" /\ call' = call
            /\ message' = {"Error: num_requests and concurrent_workers must be integers"}
       ELSE IF ParseInt(argv[2]).val < 1
       THEN /\ pc' = "exit1" /\ call' = call
            /\ message' = {"Error: num_requests must be at least 1"}
       ELSE IF ParseInt(argv[3]).val < 1
       THEN /\ pc' = "exit1" /\ call' = call
            /\ message' = {"Error: concurrent_workers must be at least 1"}
       ELSE /\ pc' = "submit" /\ message' = {}
            /\ call' = [ fn |-> "cli_run_stress_test", base_url |-> "", endpoint |-> "",
                         page_url |-> argv[1], method |-> "None", payload |-> "None",
                         num_requests |-> ParseInt(argv[2]).val,
                         concurrent_workers |-> ParseInt(argv[3]).val,
                         delay_ms |-> 0 ]
    /\ UNCHANGED <<cfgVars, request_payload, loopVars, poolVars, collVars, outVars>>

\* ------------------------------------------------------- the worker pool
\* ThreadPoolExecutor(max_workers=concurrent_workers).
\*   variant: the pool sized by the number of requests.
PoolSizeOfRequests(num_requests, concurrent_workers) == num_requests
PoolSize(num_requests, concurrent_workers) == concurrent_workers

\* executor.submit: the work item goes to the FIFO queue; a new worker
\* thread is created only below max_workers, always for the first item, and
\* otherwise unless the pool counts an idle worker.
SpawnChoices(n, max_workers) ==
    IF n >= max_workers THEN {FALSE}
    ELSE IF n = 0 THEN {TRUE}
    ELSE {TRUE, FALSE}
ExecutorSubmit(request_id, spawn) ==
    /\ queue' = Append(queue, request_id)
    /\ threads' = IF spawn THEN threads + 1 ELSE threads

FreeWorkers == threads - Cardinality(taken) - Cardinality(running)

\* work_queue.get(): the pool's queue hands out the oldest work item.
\*   variant: the newest one.
QueueGetNewest(q) == [ item |-> q[Len(q)], rest |-> SubSeq(q, 1, Len(q) - 1) ]
QueueGet(q) == [ item |-> Head(q), rest |-> Tail(q) ]

\* A worker thread without a work item dequeues the oldest one.
WorkerTake ==
    /\ pc \in {"submit", "collect", "unwinding"}
    /\ queue # <<>> /\ FreeWorkers > 0
    /\ taken' = taken \cup {QueueGet(queue).item}
    /\ queue' = QueueGet(queue).rest
    /\ UNCHANGED <<cfgVars, pc, message, request_payload, call, loopVars, network,
                   threads, running, calls, done, doneOrder, collVars, outVars>>

\* The worker calls the submitted function: the executor call begins.
WorkerBegin ==
    /\ \E id \in taken :
          /\ taken' = taken \ {id}
          /\ running' = running \cup {id}
    /\ UNCHANGED <<cfgVars, pc, message, request_payload, call, loopVars, network,
                   threads, queue, calls, done, doneOrder, collVars, outVars>>

\* The URL the calls go to starts with base_url or is page_url; requests
\* raises MissingSchema for a URL without a scheme.
Target(c) == IF c.fn = "run_stress_test" THEN c.base_url ELSE c.page_url
NetOutcomes(c) == IF Target(c) = "" THEN {MissingSchema} ELSE network
\* The network calls one executor call makes: one requests call in the try
\* block, none for a method make_request does not know.
\*   variant: a second attempt after the first.
NetworkCallsRetried(c, net) == <<net, net>>
NetworkCalls(c, net) ==
    IF c.fn = "run_stress_test" /\ c.method \notin Methods THEN <<>> ELSE <<net>>
\* The submitted function, applied to the outcome of its network call.
\*   variant: the id taken from a counter of finished calls.
ExecuteNumberedAtFinish(c, request_id, net) ==
    IF c.fn = "run_stress_test" THEN MakeRequest(c.method, Len(doneOrder) + 1, net)
    ELSE IF c.fn = "run_page_load_test" THEN LoadPage(Len(doneOrder) + 1, net)
    ELSE CliLoadPage(Len(doneOrder) + 1, net)
Execute(c, request_id, net) ==
    IF c.fn = "run_stress_test" THEN MakeRequest(c.method, request_id, net)
    ELSE IF c.fn = "run_page_load_test" THEN LoadPage(request_id, net)
    ELSE CliLoadPage(request_id, net)

\* as_completed's waiter keeps the futures that finish in finishing order.
\*   variant: the newest first.
WaiterAddFirst(waiter, id) == <<id>> \o waiter
WaiterAdd(waiter, id) == Append(waiter, id)

\* The executor call returns its result; the future becomes finished and, once
\* as_completed waits on it, is handed to the waiter in finishing order.
WorkerFinish ==
    /\ \E id \in running, net \in NetOutcomes(call) :
          /\ running' = running \ {id}
          /\ calls' = calls @@ (id :> NetworkCalls(call, net))
          /\ done' = done @@ (id :> Execute(call, id, net))
          /\ doneOrder' = Append(doneOrder, id)
          /\ acWaiter' = IF acStarted THEN WaiterAdd(acWaiter, id) ELSE acWaiter
    /\ UNCHANGED <<cfgVars, pc, message, request_payload, call, loopVars, network,
                   threads, queue, taken, acStarted, acFinished, acSnapshot, results,
                   completed, progress, outVars>>

\* ------------------------------------------------------ the run functions
\* request_id=i + 1
\*   variant: the loop index itself as the id.
RequestIdFromZero(index) == index
RequestId(index) == index + 1
\* if delay_ms > 0 and i > 0: time.sleep(delay_ms / 1000.0)
\*   variant: without the "i > 0" test.
NeedsSleepEveryTime(delay_ms, index) == delay_ms > 0
NeedsSleep(delay_ms, index) == delay_ms > 0 /\ index > 0

\* One time.sleep of the submission loop.
SleepStep ==
    /\ pc = "submit" /\ i < call.num_requests
    /\ NeedsSleep(call.delay_ms, i) /\ ~slept
    /\ slept' = TRUE /\ sleeps' = sleeps + 1
    /\ UNCHANGED <<cfgVars, pc, message, request_payload, call, i, submitLog,
                   poolVars, collVars, outVars>>

\* One executor.submit of the submission loop; futures.append.
SubmitStep(delayed) ==
    /\ pc = "submit" /\ i < call.num_requests
    /\ (delayed /\ NeedsSleep(call.delay_ms, i)) => slept
    /\ \E spawn \in SpawnChoices(threads,
                       PoolSize(call.num_requests, call.concurrent_workers)) :
          ExecutorSubmit(RequestId(i), spawn)
    /\ i' = i + 1 /\ slept' = FALSE
    /\ submitLog' = Append(submitLog, <<RequestId(i), sleeps>>)
    /\ UNCHANGED <<cfgVars, pc, message, request_payload, call, sleeps, network, taken,
                   running, calls, done, doneOrder, collVars, outVars>>

\* for i in range(num_requests): the loop ends after num_requests iterations,
\* and the collection loop is the statement after it.
\*   variant: collection begins once the first request is submitted.
LoopEndsAfterFirst(index, num_requests) == index >= 1
LoopEnds(index, num_requests) == index = num_requests

\* completed = 0; as_completed(futures) is entered: it notes which futures
\* are finished already and installs its waiter on the others.
CollectStart ==
    /\ pc = "submit" /\ LoopEnds(i, call.num_requests)
    /\ pc' = "collect"
    /\ acStarted' = TRUE
    /\ acFinished' = DOMAIN done
    /\ acSnapshot' = DOMAIN done
    /\ acWaiter' = <<>>
    /\ completed' = 0
    /\ UNCHANGED <<cfgVars, message, request_payload, call, loopVars, poolVars,
                   results, progress, outVars>>

\* The futures as_completed may yield next: any of those finished at its
\* start (it pops them from a set), then the others as they finish.
Yieldable ==
    IF acFinished # {} THEN acFinished
    ELSE IF acWaiter # <<>> THEN {Head(acWaiter)} ELSE {}

\* results.append(result); completed += 1
\*   variant: the list replaced instead of extended.
CollectedOverwriting(list, result) == <<result>>
Collected(list, result) == Append(list, result)

\* One iteration of the collection loop, the progress notification included.
\* future.result() raises the exception of a future whose function raised,
\* which ends the run function.
CollectStep(notifies) ==
    /\ pc = "collect"
    /\ \E id \in Yieldable :
          /\ acFinished' = acFinished \ {id}
          /\ acWaiter' = IF acFinished # {} THEN acWaiter ELSE Tail(acWaiter)
          /\ IF done[id].exception = "None"
             THEN /\ results' = Collected(results, done[id].result)
                  /\ completed' = completed + 1
                  /\ progress' = IF notifies
                                 THEN Append(progress, <<completed + 1, call.num_requests>>)
                                 ELSE progress
                  /\ UNCHANGED <<pc, message>>
             ELSE /\ pc' = "crashed"
                  /\ message' = message \cup {done[id].exception}
                  /\ UNCHANGED <<results, completed, progress>>
    /\ UNCHANGED <<cfgVars, request_payload, call, loopVars, poolVars, acStarted,
                   acSnapshot, outVars>>

\* as_completed is exhausted: every future was yielded.  The with block
\* shuts the pool down and the function returns results.
ReturnStep ==
    /\ pc = "collect"
    /\ Yieldable = {} /\ queue = <<>> /\ taken = {} /\ running = {}
    /\ pc' = "returned"
    /\ returned' = [ given |-> TRUE, value |-> results ]
    /\ UNCHANGED <<cfgVars, message, request_payload, call, loopVars, poolVars,
                   collVars, test_results, test_history, report, history_report>>

\* progress_bar.progress / status_text.text after every result.
AppNotifies(count, total) == TRUE
\* if completed % 10 == 0 or completed == num_requests: print(...)
\*   variant: without the "completed == num_requests" test.
CliNotifiesEveryTen(count, total) == count % 10 = 0
CliNotifies(count, total) == count % 10 = 0 \/ count = total

\* run_stress_test (streamlit_app.py)
ApiSleep == call.fn = "run_stress_test" /\ SleepStep
ApiSubmit == call.fn = "run_stress_test" /\ SubmitStep(TRUE)
ApiCollectStart == call.fn = "run_stress_test" /\ CollectStart
ApiCollect == call.fn = "run_stress_test" /\ CollectStep(AppNotifies(completed + 1, call.num_requests))
ApiReturn == call.fn = "run_stress_test" /\ ReturnStep

\* run_page_load_test (streamlit_app.py)
PageSleep == call.fn = "run_page_load_test" /\ SleepStep
PageSubmit == call.fn = "run_page_load_test" /\ SubmitStep(TRUE)
PageCollectStart == call.fn = "run_page_load_test" /\ CollectStart
PageCollect == call.fn = "run_page_load_test" /\ CollectStep(AppNotifies(completed + 1, call.num_requests))
PageReturn == call.fn = "run_page_load_test" /\ ReturnStep

\* run_stress_test (stress_test_simple.py): no delay between submissions.
CliSubmit == call.fn = "cli_run_stress_test" /\ SubmitStep(FALSE)
CliCollectStart == call.fn = "cli_run_stress_test" /\ CollectStart
CliCollect == call.fn = "cli_run_stress_test" /\ CollectStep(CliNotifies(completed + 1, call.num_requests))
CliReturn == call.fn = "cli_run_stress_test" /\ ReturnStep

\* ---------------------------------------------------------- an interrupt
\* Neither run function tests a cancellation flag or catches an interrupt.  A
\* KeyboardInterrupt (or the script runner's stop request) is an exception
\* raised in the main thread inside the with block, in the submission loop
\* or in the collection loop.
Interrupt ==
    /\ pc \in {"submit", "collect"} /\ ~signal.raised
    /\ signal' = [ raised |-> TRUE, submitted |-> i, collected |-> results ]
    /\ pc' = "unwinding"
    /\ UNCHANGED <<entry, argv, widgets, helpersDefined, message, request_payload, call,
                   loopVars, poolVars, collVars, outVars>>

\* The with block's exit runs executor.shutdown(wait=True): the workers
\* drain the queue, then the exception leaves the run function, which
\* returns nothing; no caller catches it.
Unwind ==
    /\ pc = "unwinding"
    /\ queue = <<>> /\ taken = {} /\ running = {}
    /\ pc' = "interrupted"
    /\ message' = message \cup {"KeyboardInterrupt"}
    /\ UNCHANGED <<cfgVars, request_payload, call, loopVars, poolVars, collVars, outVars>>

\* --------------------------------------------------------------- reporting
\* main: print_results(results)
PrintReport ==
    /\ pc = "returned" /\ entry = "cli"
    /\ report' = PrintResults(results)
    /\ results' = AfterAggregation(results)
    /\ pc' = "printed"
    /\ UNCHANGED <<cfgVars, message, request_payload, call, loopVars, poolVars,
                   acStarted, acFinished, acWaiter, acSnapshot, completed, progress,
                   test_results, test_history, history_report, returned>>

\* Button handler, "Store results": session state, then st.rerun().
StoreResults ==
    /\ pc = "returned" /\ entry = "app"
    /\ test_results' = results
    /\ test_history' = Append(test_history,
                          [ num_requests |-> widgets.num_requests,
                            concurrent_workers |-> widgets.concurrent_workers,
                            results |-> results ])
    /\ pc' = "stored"
    /\ UNCHANGED <<cfgVars, message, request_payload, call, loopVars, poolVars,
                   collVars, report, history_report, returned>>

\* test_history[-10:]
HistoryShown == 10
LastTests(history) ==
    SubSeq(history,
           IF Len(history) > HistoryShown THEN Len(history) - HistoryShown + 1 ELSE 1,
           Len(history))

\* The rerun of the script: Tab 2 and Tab 3 render the stored results.
RenderTabs ==
    /\ pc = "stored"
    /\ report' = IF test_results # <<>> THEN ResultsTab(test_results) ELSE NoReport
    /\ history_report' =
          [ k \in 1..Len(LastTests(test_history)) |->
              IF LastTests(test_history)[k].results # <<>>
              THEN HistoryEntry(LastTests(test_history)[k].results) ELSE NoReport ]
    /\ test_results' = AfterAggregation(test_results)
    /\ test_history' =
          [ k \in 1..Len(test_history) |->
              [test_history[k] EXCEPT !.results = AfterAggregation(@)] ]
    /\ pc' = "rendered"
    /\ UNCHANGED <<cfgVars, message, request_payload, call, loopVars, poolVars,
                   collVars, returned>>

Next ==
    \/ StartButton \/ Main
    \/ ApiSleep \/ ApiSubmit \/ ApiCollectStart \/ ApiCollect \/ ApiReturn
    \/ PageSleep \/ PageSubmit \/ PageCollectStart \/ PageCollect \/ PageReturn
    \/ CliSubmit \/ CliCollectStart \/ CliCollect \/ CliReturn
    \/ WorkerTake \/ WorkerBegin \/ WorkerFinish
    \/ PrintReport \/ StoreResults \/ RenderTabs

Spec == Init /\ [][Next]_vars

\* The program whose threads are scheduled fairly and whose network calls
\* all return (timeout=30 for make_request and load_page, timeout=60 for the
\* command-line load_page): a step that can be taken is taken eventually.
SpecLive == Init /\ [][Next]_vars /\ WF_vars(Next)

\* Longer runs, up to LongRequests requests, from the moment the collection
\* loop starts: one worker, a target that answers every request with 200,
\* as_completed entered before the first call finished, and every call
\* finished since.
LongCalls ==
    { [ fn |-> "run_stress_test", base_url |-> "http://localhost:8000",
        endpoint |-> "/api/v2/pages/", page_url |-> "", method |-> "GET",
        payload |-> "None", num_requests |-> n, concurrent_workers |-> 1,
        delay_ms |-> 0 ] : n \in 1..LongRequests }
    \cup
    { [ fn |-> f, base_url |-> "", endpoint |-> "",
        page_url |-> "http://localhost:8000/dashboard/test-dashboard/",
        method |-> "None", payload |-> "None", num_requests |-> n,
        concurrent_workers |-> 1, delay_ms |-> 0 ] :
        f \in {"run_page_load_test", "cli_run_stress_test"}, n \in 1..LongRequests }
LongWidgets(c) ==
    [ test_mode |-> IF c.fn = "run_stress_test" THEN ApiMode ELSE PageMode,
      base_url |-> IF c.fn = "run_stress_test" THEN c.base_url ELSE PageBase(c.page_url),
      api_endpoint |-> c.endpoint, page_url |-> c.page_url,
      num_requests |-> c.num_requests, concurrent_workers |-> c.concurrent_workers,
      request_method |-> c.method, payload_text |-> NoPayloadText, delay_ms |-> c.delay_ms ]
\* The state of a run of the call c on one worker in which as_completed was
\* entered before the first call finished and every call has finished since,
\* request k with the network outcome outs[k].
AllCallsFinished(c, outs) ==
    /\ call = c
    /\ IF c.fn = "cli_run_stress_test"
       THEN /\ entry = "cli" /\ widgets = NoWidgets
            /\ argv = <<c.page_url, IntStr(c.num_requests), IntStr(1)>>
       ELSE /\ entry = "app" /\ widgets = LongWidgets(c) /\ argv = <<>>
    /\ helpersDefined = TRUE /\ signal = NoSignal
    /\ message = {} /\ request_payload = "None"
    /\ i = c.num_requests /\ slept = FALSE /\ sleeps = 0
    /\ submitLog = [ k \in 1..c.num_requests |-> <<RequestId(k - 1), 0>> ]
    /\ threads = 1 /\ queue = <<>> /\ taken = {} /\ running = {}
    /\ calls = [ id \in 1..c.num_requests |-> NetworkCalls(c, outs[id]) ]
    /\ done = [ id \in 1..c.num_requests |-> Execute(c, id, outs[id]) ]
    /\ doneOrder = [ k \in 1..c.num_requests |-> k ]
    /\ acStarted = TRUE /\ acFinished = {} /\ acSnapshot = {}
    /\ test_results = <<>> /\ test_history = <<>>
    /\ report = NoReport /\ history_report = <<>>

InitLong ==
    /\ network = {Resp(200)}
    /\ \E c \in LongCalls :
          AllCallsFinished(c, [ id \in 1..c.num_requests |-> Resp(200) ])
    /\ pc = "collect"
    /\ acWaiter = [ k \in 1..call.num_requests |-> k ]
    /\ results = <<>> /\ completed = 0 /\ progress = <<>>
    /\ returned = NotReturned
NextLong ==
    \/ ApiCollect \/ ApiReturn \/ PageCollect \/ PageReturn \/ CliCollect \/ CliReturn
    \/ PrintReport \/ StoreResults \/ RenderTabs
SpecLong == InitLong /\ [][NextLong]_vars

\* The summaries on their own: print_results and the tabs applied to the
\* list a run has just returned, for runs of up to MaxRequests requests with
\* any outcome of each network call.
AggCalls == { c \in LongCalls : c.num_requests <= MaxRequests }
InitAgg ==
    /\ network = AllOutcomes
    /\ \E c \in AggCalls :
          \E outs \in [1..c.num_requests -> AllOutcomes] :
              /\ AllCallsFinished(c, outs)
              /\ results = [ k \in 1..c.num_requests |-> Execute(c, k, outs[k]).result ]
    /\ pc = "returned"
    /\ acWaiter = <<>>
    /\ completed = call.num_requests
    /\ progress = IF entry = "app"
                  THEN [ k \in 1..call.num_requests |-> <<k, call.num_requests>> ]
                  ELSE << <<call.num_requests, call.num_requests>> >>
    /\ returned = [ given |-> TRUE, value |-> results ]
NextAgg == PrintReport \/ StoreResults \/ RenderTabs
SpecAgg == InitAgg /\ [][NextAgg]_vars

\* The program with an interrupt that may arrive during a run.
NextInterrupt == Next \/ Interrupt \/ Unwind
SpecInterrupt == Init /\ [][NextInterrupt]_vars

\* ------------------------------------------- one executor call on its own
\* make_request and both load_page functions called directly, once, with any
\* method string and any outcome of the network call.
DirectCalls ==
    { [ fn |-> "run_stress_test", base_url |-> b, endpoint |-> "/api/v2/pages/",
        page_url |-> "", method |-> m, payload |-> "None",
        num_requests |-> 1, concurrent_workers |-> 1, delay_ms |-> 0 ] :
        b \in BaseUrls, m \in Methods \cup {"PATCH"} }
    \cup
    { [ fn |-> f, base_url |-> "", endpoint |-> "", page_url |-> p,
        method |-> "None", payload |-> "None",
        num_requests |-> 1, concurrent_workers |-> 1, delay_ms |-> 0 ] :
        f \in {"run_page_load_test", "cli_run_stress_test"}, p \in PageUrls }

InitExec ==
    /\ entry = "call" /\ argv = <<>> /\ widgets = NoWidgets /\ helpersDefined = TRUE
    /\ pc = "call" /\ message = {} /\ request_payload = "None"
    /\ call \in DirectCalls
    /\ i = 0 /\ slept = FALSE /\ sleeps = 0 /\ submitLog = <<>>
    /\ network = AllOutcomes
    /\ threads = 1 /\ queue = <<>> /\ \E id \in 0..MaxRequests : taken = {id}
    /\ running = {} /\ calls = <<>> /\ done = <<>> /\ doneOrder = <<>>
    /\ acStarted = FALSE /\ acFinished = {} /\ acWaiter = <<>> /\ acSnapshot = {}
    /\ results = <<>> /\ completed = 0 /\ progress = <<>>
    /\ test_results = <<>> /\ test_history = <<>>
    /\ report = NoReport /\ history_report = <<>>
    /\ signal = NoSignal /\ returned = NotReturned

NextExec == WorkerBegin \/ WorkerFinish

SpecExec == InitExec /\ [][NextExec]_vars

\* ================================================================= claims
RunReturned == pc \in {"returned", "printed", "stored", "rendered"}
ResultIds == {results[k].request_id : k \in 1..Len(results)}
SeqIds(seq) == {seq[k] : k \in 1..Len(seq)}

\* C1: a run that has returned holds exactly num_requests results whose
\* request_ids are exactly 1..num_requests, each once, whatever the order in
\* which the workers finished.
C1_CompletedRunHasEachIdOnce ==
    RunReturned =>
        /\ Len(results) = call.num_requests
        /\ ResultIds = 1..call.num_requests
        /\ \A j, k \in 1..Len(results) :
              results[j].request_id = results[k].request_id => j = k

\* A returned run of at least two requests whose calls finished out of
\* submission order.
C1_Witness ==
    /\ pc = "returned" /\ call.num_requests >= 2
    /\ doneOrder[1] # 1
    /\ results[1].request_id = call.num_requests

\* C2: at every moment the executor calls that have begun and not yet
\* finished number at most concurrent_workers.
C2_ActiveCallsWithinWorkers ==
    Cardinality(running) <= call.concurrent_workers

\* The pool is full while a submitted request still waits in the queue.
C2_Witness ==
    /\ Cardinality(running) = call.concurrent_workers
    /\ call.concurrent_workers >= 1
    /\ queue # <<>>

\* C3: every finished request is in the result list exactly once or is still
\* to be yielded by as_completed, every entry is the result of its request,
\* and the completion counter equals the number of entries.
C3_OneEntryPerCompletedRequest ==
    /\ completed = Len(results)
    /\ \A j, k \in 1..Len(results) :
          results[j].request_id = results[k].request_id => j = k
    /\ \A k \in 1..Len(results) :
          /\ results[k].request_id \in DOMAIN done
          /\ results[k] = done[results[k].request_id].result
    /\ acStarted => DOMAIN done = ResultIds \cup acFinished \cup SeqIds(acWaiter)
    /\ RunReturned => ResultIds = DOMAIN done

\* Two calls had both finished before the first of them was collected, and
\* both are collected now.
C3_Witness ==
    /\ pc = "collect" /\ completed = 2
    /\ Cardinality(acFinished) + Len(acWaiter) = 0
    /\ \E k \in 1..Len(doneOrder) : k >= 2 /\ doneOrder[k] = results[1].request_id

\* The executor call of request id made no network call that ended in an
\* HTTP response.
CallFailed(id) == calls[id] = <<>> \/ calls[id][1].kind # "response"

\* C4: every result an executor produces has success true exactly when
\* 0 < status_code < 400; a result with status_code 0 is never a success.
C4_SuccessIffStatusBelow400 ==
    \A id \in DOMAIN done :
        done[id].exception = "None" =>
            (done[id].result.success <=>
                (0 < done[id].result.status_code /\ done[id].result.status_code < 400))

\* A call that raised: its result has status_code 0 and is no success.
C4_Witness ==
    \E id \in DOMAIN done :
        /\ CallFailed(id) /\ done[id].exception = "None"
        /\ done[id].result.status_code = 0 /\ ~done[id].result.success

\* C5: every summary shown (print_results, the Results tab, the History tab)
\* has total = number of results, successful = number of results whose
\* success flag is true, failed = total - successful and
\* success_rate = successful / total * 100.
SummaryCountsFlags(summary, list) ==
    /\ summary.total = Len(list)
    /\ summary.successful = Cardinality({k \in 1..Len(list) : list[k].success})
    /\ summary.failed = summary.total - summary.successful
    /\ summary.success_rate = SuccessRate(summary.successful, summary.total)
C5_SummariesCountSuccessFlags ==
    /\ report.view # "none" => SummaryCountsFlags(report, results)
    /\ \A k \in DOMAIN history_report :
          history_report[k].view # "none" =>
              SummaryCountsFlags(history_report[k], LastTests(test_history)[k].results)

\* C6: a returned run whose every call failed at the network level has
\* num_requests results, each with status_code 0 and an error label, and every
\* summary shown for it reports a success rate of 0; the application shows a
\* summary for it.
AllCallsFailed == \A id \in DOMAIN calls : CallFailed(id)
C6_AllFailedRunReportsZero ==
    (RunReturned /\ AllCallsFailed) =>
        /\ Len(results) = call.num_requests
        /\ \A k \in 1..Len(results) :
              results[k].status_code = 0 /\ Truthy(results[k].error)
        /\ report.view # "none" => report.success_rate.num = 0
        /\ \A k \in DOMAIN history_report :
              history_report[k].view # "none" => history_report[k].success_rate.num = 0
        /\ pc = "rendered" => report.view # "none"

\* C7: no exception leaves an executor call: a call that met a failure
\* returns a result, with status_code 0 and a non-empty error; and a result's
\* error is non-empty exactly when the call did not end in an HTTP response.
C7_FailuresBecomeResults ==
    \A id \in DOMAIN done :
        /\ done[id].exception = "None"
        /\ CallFailed(id) =>
              done[id].result.status_code = 0 /\ Truthy(done[id].result.error)
        /\ Truthy(done[id].result.error) <=> CallFailed(id)

\* An exception outside the requests hierarchy, raised without a message, was
\* turned into a result.
C7_Witness ==
    \E id \in DOMAIN done :
        /\ calls[id] # <<>>
        /\ calls[id][1].kind = "Exception" /\ calls[id][1].msg = ""
        /\ done[id].exception = "None" /\ Truthy(done[id].result.error)

\* C8: with method POST or PUT and a payload text that is not valid JSON,
\* nothing is dispatched: no request is submitted, no network call is made
\* and no result exists.
InvalidPayload ==
    /\ entry = "app" /\ HasPayloadArea(widgets)
    /\ ~JsonLoads(widgets.payload_text).ok
NothingDispatched ==
    /\ i = 0 /\ submitLog = <<>> /\ queue = <<>>
    /\ DOMAIN calls = {} /\ DOMAIN done = {} /\ results = <<>>
C8_InvalidPayloadStopsRun ==
    InvalidPayload => NothingDispatched

\* C9: an empty base URL, endpoint or page URL, or a count or concurrency
\* that is no integer or is below 1, is rejected before anything is
\* dispatched, in the application and on the command line.
InvalidConfig ==
    \/ /\ entry = "app" /\ widgets.test_mode = ApiMode
       /\ (widgets.base_url = "" \/ widgets.api_endpoint = "")
    \/ /\ entry = "app" /\ widgets.test_mode = PageMode
       /\ widgets.page_url = ""
    \/ /\ entry = "cli" /\ Len(argv) = 3
       /\ \/ argv[1] = ""
          \/ ~ParseInt(argv[2]).ok \/ ParseInt(argv[2]).val < 1
          \/ ~ParseInt(argv[3]).ok \/ ParseInt(argv[3]).val < 1
C9_InvalidConfigStopsRun ==
    InvalidConfig => NothingDispatched

\* C10: with delay_ms > 0 the k-th submission comes after exactly k - 1
\* sleeps (none before the first), so num_requests - 1 sleeps are done when
\* the last request is submitted and none is added afterwards.
C10_DelayBetweenSubmissions ==
    call.delay_ms > 0 =>
        /\ \A k \in 1..Len(submitLog) : submitLog[k] = <<k, k - 1>>
        /\ i = call.num_requests => sleeps = call.num_requests - 1

\* All requests of a delayed run are submitted and all but the last have
\* already finished.
C10_Witness ==
    /\ call.delay_ms > 0 /\ call.num_requests >= 2 /\ call.concurrent_workers >= 2
    /\ pc = "submit" /\ i = call.num_requests
    /\ Cardinality(DOMAIN done) = call.num_requests - 1

\* C11: when an interrupt arrives during a run, nothing is submitted after
\* it, every request submitted before it is executed to its end, and the run
\* function returns the results collected up to the interrupt, none dropped.
C11_InterruptedRunReturnsCollected ==
    pc = "interrupted" =>
        /\ i = signal.submitted
        /\ DOMAIN done = 1..signal.submitted
        /\ returned.given
        /\ returned.value = signal.collected

ResultPos(id) == CHOOSE k \in 1..Len(results) : results[k].request_id = id
FinishedBefore(a, b) ==
    \E j, k \in 1..Len(doneOrder) : j < k /\ doneOrder[j] = a /\ doneOrder[k] = b

Notifications(n, total) == [ k \in 1..n |-> <<k, total>> ]

\* C13 as stated: in every entry point a returned run of N requests has sent
\* the progress sink exactly the notifications (1, N), (2, N), ..., (N, N).
C13_ProgressAfterEachResult ==
    RunReturned => progress = Notifications(call.num_requests, call.num_requests)

\* C13: the run functions of the application notify the progress sink
\* after every result, with (1, N), (2, N), ... in that order; the
\* command-line tester notifies it only after every tenth result and after
\* the last one, so a returned run has sent (10, N), (20, N), ... and (N, N).
C13_ProgressPerEntryPoint ==
    pc \in {"collect", "returned", "printed", "stored", "rendered"} =>
        LET n == call.num_requests
            tens == completed \div 10
            last == IF completed = n /\ n % 10 # 0 THEN 1 ELSE 0
        IN  IF entry = "app"
            THEN progress = Notifications(completed, n)
            ELSE /\ Len(progress) = tens + last
                 /\ \A j \in 1..Len(progress) :
                       progress[j] = <<IF j <= tens THEN 10 * j ELSE n, n>>

\* The command-line tester has returned from a run of more than ten
\* requests: it printed progress after the tenth and after the last result.
C13_Witness ==
    /\ entry = "cli" /\ pc = "returned"
    /\ call.num_requests > 10
    /\ Len(progress) = 2 /\ progress[1][1] = 10

SubmittedIds == {submitLog[k][1] : k \in 1..Len(submitLog)}

\* C14: every request id is submitted once, is at any time in exactly one of
\* the queue, a worker about to call, a running call or a finished future,
\* and its executor call makes at most one network call, failed or not; so
\* the network calls of a run never number more than num_requests.
C14_OneCallOneAttemptPerRequest ==
    /\ Len(submitLog) = i /\ i <= call.num_requests
    /\ SubmittedIds = 1..i
    /\ \A j, k \in 1..Len(queue) : queue[j] = queue[k] => j = k
    /\ SeqIds(queue) \cap (taken \cup running \cup DOMAIN done) = {}
    /\ taken \cap (running \cup DOMAIN done) = {}
    /\ running \cap DOMAIN done = {}
    /\ SeqIds(queue) \cup taken \cup running \cup DOMAIN done = SubmittedIds
    /\ DOMAIN calls = DOMAIN done
    /\ \A id \in DOMAIN calls : Len(calls[id]) <= 1
    /\ Len(doneOrder) = Cardinality(DOMAIN done)

\* A returned run of two or more requests with a call that failed at the
\* network and was made once.
C14_Witness ==
    /\ pc = "returned" /\ call.num_requests >= 2
    /\ \E id \in DOMAIN calls :
          /\ Len(calls[id]) = 1 /\ calls[id][1] \in Failures
          /\ ~done[id].result.success

\* C15: under fair scheduling a run that has begun to submit eventually
\* returns with num_requests results, whether its requests succeed or fail.
C15_DispatchingRunCompletes ==
    (pc = "submit") ~> (pc = "returned" /\ Len(results) = call.num_requests)

\* A returned run of two or more requests, some succeeded and some failed.
C15_Witness ==
    /\ pc = "returned" /\ Len(results) = call.num_requests
    /\ \E j, k \in 1..Len(results) : results[j].success /\ ~results[k].success

C17_RequestIdFixedAtSubmission ==
    /\ \A k \in 1..Len(submitLog) : submitLog[k][1] = k
    /\ \A k \in 1..Len(queue) : queue[k] \in SubmittedIds
    /\ \A id \in DOMAIN done :
          done[id].exception = "None" => done[id].result.request_id = id
    /\ \A k \in 1..Len(results) :
          \E id \in DOMAIN done : results[k] = done[id].result /\ results[k].request_id = id

\* A returned run whose calls finished in another order than they were
\* submitted in, and whose list is not in submission order either.
C17_Witness ==
    /\ pc = "returned" /\ Len(results) >= 2
    /\ \E k \in 1..Len(doneOrder) : doneOrder[k] # k
    /\ \E k \in 1..Len(results) : results[k].request_id # k

SumOver(f, keys) ==
    LET RECURSIVE Sum(_)
        Sum(ks) == IF ks = {} THEN 0
                   ELSE LET x == CHOOSE y \in ks : TRUE IN f[x] + Sum(ks \ {x})
    IN  Sum(keys)
NoResponse(id) == calls[id] = <<>> \/ calls[id][1].kind # "response"
CountsByStatus(hist, list) ==
    /\ DOMAIN hist = {list[k].status_code : k \in 1..Len(list)}
    /\ \A code \in DOMAIN hist :
          hist[code] = Cardinality({k \in 1..Len(list) : list[k].status_code = code})
    /\ SumOver(hist, DOMAIN hist) = Len(list)
    /\ LET unanswered == {k \in 1..Len(list) : NoResponse(list[k].request_id)}
       IN  IF unanswered = {} THEN 0 \notin DOMAIN hist
           ELSE hist[0] = Cardinality(unanswered)
WithError(list) == {k \in 1..Len(list) : list[k].error # NoneVal /\ Truthy(list[k].error)}

\* C18: the status code histogram of print_results and of the Results tab
\* maps each status code of the list to the number of results carrying it,
\* so its counts add up to the length of the list and the count under 0 is
\* the number of results whose call got no HTTP response; the error
\* histogram of print_results maps each non-empty error to the number of
\* results carrying it, so its counts add up to the number of results with a
\* non-empty error; the Results tab lists those results.
C18_HistogramsCountResults ==
    /\ pc = "printed" =>
          /\ CountsByStatus(report.status_codes, results)
          /\ DOMAIN report.error_types = {results[k].error : k \in WithError(results)}
          /\ \A e \in DOMAIN report.error_types :
                report.error_types[e] =
                    Cardinality({k \in 1..Len(results) : results[k].error = e})
          /\ SumOver(report.error_types, DOMAIN report.error_types)
                = Cardinality(WithError(results))
    /\ (pc = "rendered" /\ report.view # "none") =>
          /\ CountsByStatus(report.status_codes, test_results)
          /\ Len(report.errors) = Cardinality(WithError(test_results))
          /\ \A k \in 1..Len(report.errors) :
                \E j \in WithError(test_results) :
                    report.errors[k] = <<test_results[j].request_id, test_results[j].error>>

\* print_results has summarised a list of two or more results, some with
\* an HTTP response and some without, the latter with an error.
C18_Witness ==
    /\ pc = "printed" /\ Len(results) >= 2
    /\ 0 \in DOMAIN report.status_codes
    /\ Cardinality(DOMAIN report.status_codes) >= 2
    /\ \E e \in DOMAIN report.error_types : report.error_types[e] >= 1

CallStarted(id) == id \in running \cup DOMAIN done
WorkItemTaken(id) == id \in taken \cup running \cup DOMAIN done
OneCallPerWorker ==
    /\ Cardinality(taken \cup running) <= threads
    /\ pc \notin {"start", "rejected", "exit1"} => threads <= call.concurrent_workers

\* C19 as stated: a worker runs one call at a time, and the call of a
\* request never starts before the calls of all requests submitted earlier
\* have started.
C19_CallsStartInSubmissionOrder ==
    /\ OneCallPerWorker
    /\ \A j \in SubmittedIds, k \in SubmittedIds :
          (k < j /\ CallStarted(j)) => CallStarted(k)

\* C19: a worker runs one call at a time, and work items leave the queue in
\* submission order: a request is never taken by a worker before all
\* requests submitted earlier have been taken, and the queue holds the
\* others in submission order.  Workers that hold work items begin their
\* calls in any order.
C19_WorkItemsTakenInSubmissionOrder ==
    /\ OneCallPerWorker
    /\ \A j \in SubmittedIds, k \in SubmittedIds :
          (k < j /\ WorkItemTaken(j)) => WorkItemTaken(k)
    /\ \A a, b \in 1..Len(queue) : a < b => queue[a] < queue[b]

\* Two workers hold the first two requests; the call of the second has
\* begun and the call of the first has not.
C19_Witness ==
    /\ 1 \in taken /\ 2 \in running
    /\ threads >= 2

\* C20: while requests remain to be submitted, and while a delay before one
\* of them remains to be slept, the result list is empty, the counter is 0
\* and no progress notification was sent, even if calls have finished.
C20_CollectionFollowsSubmission ==
    (results # <<>> \/ completed > 0 \/ progress # <<>> \/ acStarted) =>
        /\ i = call.num_requests
        /\ Len(submitLog) = call.num_requests
        /\ call.delay_ms > 0 => sleeps = call.num_requests - 1

\* A delayed run in which the first call has finished while a request is
\* still to be submitted: nothing is collected.
C20_Witness ==
    /\ pc = "submit" /\ i < call.num_requests /\ call.delay_ms > 0
    /\ 1 \in DOMAIN done
    /\ results = <<>> /\ progress = <<>>

====
